---- MODULE Spec2Model ----
(***************************************************************************)
(* A model of hass_nabucasa/acme.py: the AcmeHandler that issues, renews   *)
(* and revokes one certificate over ACME with a DNS-01 challenge whose TXT *)
(* record is published through the cloud API.                              *)
(*                                                                         *)
(* State: the four files of the store, the two fields the handler keeps in *)
(* memory across calls (_acme_client, _account_jwk), the configured        *)
(* directory URL, and for every invocation its position in the coroutine,  *)
(* its local variables, the external calls it has made so far and the way  *)
(* it ended.  Every external call (ACME server, cloud DNS API) may succeed *)
(* or fail; the model takes both.                                          *)
(***************************************************************************)
EXTENDS Integers, Sequences, FiniteSets, TLC

\* ------------------------------------------------------------- bounds
\* Invocations started over the life of the store (sequential specification).
MaxCalls == 3
\* Invocations started when invocations may overlap (SpecConc).
ConcCalls == 2
\* Invocation slots: how many invocations can be in flight in SpecConc.
NumTasks == 2
\* Latest not-valid-after instant the ACME server puts on a certificate.
MaxTime == 2

\* Authorizations of a generated order, and challenges of one authorization.
MaxAuths == 2
MaxChalls == 2

\* ---------------------------------------------------------- constants
FILE_ACCOUNT_KEY == "acme_account.pem"
FILE_PRIVATE_KEY == "remote_private.pem"
FILE_FULLCHAIN == "remote_fullchain.pem"
FILE_REGISTRATION == "acme_reg.json"
FileNames == {FILE_ACCOUNT_KEY, FILE_PRIVATE_KEY, FILE_FULLCHAIN, FILE_REGISTRATION}

\* chmod(0o600)
OwnerOnly == 384
\* open(..., "w") creates with 0o666 masked by the process umask
CreateBits == 438
\* the two usual umasks, 0o022 and 0o077
Umasks == {18, 63}
\* resp.status != 200
StatusOK == 200

Tasks == 1 .. NumTasks
\* the one caller of the sequential specification
SeqTasks == {1}

\* Directory URLs the handler can be configured with, already split the way
\* urllib.parse.urlparse splits them.
Servers ==
  { [scheme |-> "https", netloc |-> "acme-v02.api.letsencrypt.org", path |-> "/directory"],
    [scheme |-> "https", netloc |-> "acme-staging-v02.api.letsencrypt.org", path |-> "/directory"] }

\* HTTP statuses the cloud API answers the publish call with.
Statuses == {200, 201, 204, 404, 503}

\* Instants: not-valid-after of a certificate, and the clock IsValid reads.
Times == 0 .. MaxTime

\* Orders the ACME server answers new_order with: the authorizations, each a
\* sequence of challenges [typ, token].
Chall(typ, token) == [typ |-> typ, token |-> token]
Orders ==
  { << >>,
    << << Chall("http-01", 1) >> >>,
    << << Chall("http-01", 1), Chall("dns-01", 2) >> >>,
    << << Chall("dns-01", 1), Chall("http-01", 2) >>, << Chall("dns-01", 3) >> >>,
    << << Chall("dns-01", 1), Chall("dns-01", 2) >>, << Chall("tls-alpn-01", 3) >> >> }

VARIABLES
  files,        \* file name -> << >> (absent) or << [data, mode] >>
  umask,        \* the process umask
  acme_server,  \* self._acme_server
  acme_client,  \* self._acme_client: << >> (None) or << [key, account, directory] >>
  account_jwk,  \* self._account_jwk: 0 (None) or the account key
  ncalls,       \* invocations started so far
  pc,           \* task -> position in issue_certificate / remove_acme
  op,           \* task -> "issue" | "remove" | "none"
  cid,          \* task -> number of the invocation the task runs
  loc,          \* task -> the coroutine's local variables
  exc,          \* task -> the exception pending in the try/finally, "" if none
  log,          \* task -> the external calls and file operations of the invocation
  outcome,      \* task -> "" (running or never run) | "OK" | the exception raised
  pre,          \* task -> the store as it was when the invocation started
  prev          \* task -> how the handler's previous invocation in the slot ended

vars == << files, umask, acme_server, acme_client, account_jwk, ncalls,
           pc, op, cid, loc, exc, log, outcome, pre, prev >>

\* ------------------------------------------------------------ the store
RECURSIVE BitAnd(_, _)
BitAnd(a, b) ==
  IF a = 0 \/ b = 0 THEN 0
  ELSE (a % 2) * (b % 2) + 2 * BitAnd(a \div 2, b \div 2)

\* mode of a file the process creates: 0o666 & ~umask
CreateMode == CreateBits - BitAnd(CreateBits, umask)

Exists(fs, f) == fs[f] # << >>
Data(fs, f) == fs[f][1].data
Mode(fs, f) == fs[f][1].mode

\* Path.write_bytes / Path.write_text: creates the file, or truncates it
\* keeping its mode
WriteFile(fs, f, d) ==
  [fs EXCEPT ![f] = << [data |-> d,
                        mode |-> IF Exists(fs, f) THEN Mode(fs, f) ELSE CreateMode] >>]

\* Path.chmod
Chmod(fs, f, m) == [fs EXCEPT ![f] = << [data |-> Data(fs, f), mode |-> m] >>]

\* Path.unlink of a file that exists
Unlink(fs, f) == [fs EXCEPT ![f] = << >>]

NoFiles == [f \in FileNames |-> << >>]

\* no invocation has run on the handler yet
NoCall == [op |-> "none", outcome |-> ""]

\* ------------------------------------------------------ pure functions
\* urllib.parse.urlparse: (scheme, netloc, path)
UrlParse(url) == << url.scheme, url.netloc, url.path >>

\* acme_url[0] != regr_url[0] or acme_url[1] != regr_url[1]
OriginDiffers(server, uri) ==
  LET acme_url == UrlParse(server)
      regr_url == UrlParse(uri)
  IN  acme_url[1] # regr_url[1] \/ acme_url[2] # regr_url[2]

\* the account URI the server of a directory assigns
AccountUri(server) ==
  [scheme |-> server.scheme, netloc |-> server.netloc, path |-> "/acme/acct"]

\* the inner loop with a break at the first dns-01 challenge
RECURSIVE ScanChallengesFirstMatch(_, _, _)
ScanChallengesFirstMatch(challs, i, found) ==
  IF i > Len(challs) THEN found
  ELSE ScanChallengesFirstMatch(challs, i + 1,
         IF challs[i].typ # "dns-01" \/ found # << >> THEN found ELSE << challs[i] >>)

\* the inner loop of _start_challenge: for challenge in auth.body.challenges
RECURSIVE ScanChallenges(_, _, _)
ScanChallenges(challs, i, found) ==
  IF i > Len(challs) THEN found
  ELSE ScanChallenges(challs, i + 1,
         IF challs[i].typ # "dns-01" THEN found ELSE << challs[i] >>)

\* the outer loop: for auth in order.authorizations
RECURSIVE ScanAuthorizations(_, _, _)
ScanAuthorizations(auths, i, found) ==
  IF i > Len(auths) THEN found
  ELSE ScanAuthorizations(auths, i + 1, ScanChallenges(auths[i], 1, found))

\* dns_challenge after the scan: << >> is None
FindDnsChallenge(order) == ScanAuthorizations(order.authorizations, 1, << >>)

\* challenge.response_and_validation(account_jwk): the TXT value
Validation(challenge, jwk) == [token |-> challenge.token, key |-> jwk]

\* _get_cert
GetCert(fs) == IF ~Exists(fs, FILE_FULLCHAIN) THEN << >> ELSE << Data(fs, FILE_FULLCHAIN) >>

\* is_valid_certificate, with datetime.utcnow() = now
IsValidCertificate(fs, now) ==
  LET cert == GetCert(fs)
  IN  IF cert = << >> THEN FALSE ELSE cert[1].not_valid_after > now

\* ------------------------------------------------------------- helpers
NoLocals ==
  [regr |-> << >>, csr |-> << >>, order |-> << >>, challenge |-> << >>,
   cert |-> << >>, fullchain |-> << >>]

Event(name, arg, res, status) == [op |-> name, arg |-> arg, res |-> res, status |-> status]

Logged(t, e) == log' = [log EXCEPT ![t] = Append(@, e)]

Idle(t) == pc[t] = "idle"

\* the coroutine returns
Return(t) ==
  /\ pc' = [pc EXCEPT ![t] = "idle"]
  /\ outcome' = [outcome EXCEPT ![t] = "OK"]
  /\ loc' = [loc EXCEPT ![t] = NoLocals]
  /\ exc' = [exc EXCEPT ![t] = ""]

\* the exception e leaves the coroutine
Raise(t, e) ==
  /\ pc' = [pc EXCEPT ![t] = "idle"]
  /\ outcome' = [outcome EXCEPT ![t] = e]
  /\ loc' = [loc EXCEPT ![t] = NoLocals]
  /\ exc' = [exc EXCEPT ![t] = ""]

Goto(t, label) == pc' = [pc EXCEPT ![t] = label]

\* where the caller of _create_client goes on
AfterCreateClient(t) == IF op[t] = "issue" THEN "generate_csr" ELSE "revoke"

Init ==
  /\ files = NoFiles
  /\ umask \in Umasks
  /\ acme_server \in Servers
  /\ acme_client = << >>
  /\ account_jwk = 0
  /\ ncalls = 0
  /\ pc = [t \in Tasks |-> "idle"]
  /\ op = [t \in Tasks |-> "none"]
  /\ cid = [t \in Tasks |-> 0]
  /\ loc = [t \in Tasks |-> NoLocals]
  /\ exc = [t \in Tasks |-> ""]
  /\ log = [t \in Tasks |-> << >>]
  /\ outcome = [t \in Tasks |-> ""]
  /\ pre = [t \in Tasks |-> NoFiles]
  /\ prev = [t \in Tasks |-> NoCall]

\* ------------------------------------------------- AcmeHandler.__init__
\* A new handler over the same store (the process restarts, possibly with
\* another directory URL configured): nothing is in memory, no call has run.
Construct ==
  /\ \A t \in Tasks : Idle(t)
  /\ \E s \in Servers : acme_server' = s
  /\ acme_client' = << >>
  /\ account_jwk' = 0
  /\ op' = [t \in Tasks |-> "none"]
  /\ log' = [t \in Tasks |-> << >>]
  /\ outcome' = [t \in Tasks |-> ""]
  /\ pre' = [t \in Tasks |-> NoFiles]
  /\ prev' = [t \in Tasks |-> NoCall]
  /\ cid' = [t \in Tasks |-> 0]
  /\ UNCHANGED << files, umask, ncalls, pc, loc, exc >>

\* ------------------------------------------------ entry of the two calls
\* issue_certificate / remove_acme up to "if not self._acme_client": no guard
\* of any kind stands before it.
Enter(t, name, limit) ==
  /\ Idle(t)
  /\ ncalls < limit
  /\ ncalls' = ncalls + 1
  /\ cid' = [cid EXCEPT ![t] = ncalls + 1]
  /\ op' = [op EXCEPT ![t] = name]
  /\ log' = [log EXCEPT ![t] =
               << Event("enter", << >>,
                        IF acme_client = << >> THEN "no_client" ELSE "client", 0) >>]
  /\ outcome' = [outcome EXCEPT ![t] = ""]
  /\ pre' = [pre EXCEPT ![t] = files]
  /\ prev' = [prev EXCEPT ![t] = [op |-> op[t], outcome |-> outcome[t]]]
  /\ loc' = [loc EXCEPT ![t] = NoLocals]
  /\ exc' = [exc EXCEPT ![t] = ""]
  /\ UNCHANGED << files, umask, acme_server, acme_client, account_jwk >>

StartIssue(t, limit) ==
  /\ Enter(t, "issue", limit)
  /\ Goto(t, IF acme_client = << >> THEN "create_client" ELSE "generate_csr")

StartRemove(t, limit) ==
  /\ Enter(t, "remove", limit)
  /\ Goto(t, IF acme_client = << >> THEN "create_client" ELSE "revoke")

\* ------------------------------------------------------- _create_client
\* ResetRegistration with the unlink of the account key left out
ResetRegistrationKeepsKey(t) ==
  /\ pc[t] = "create_client"
  /\ UNCHANGED << umask, acme_server, acme_client, account_jwk, ncalls, op, cid, pre, prev,
                  exc, outcome >>
  /\ Goto(t, "load_account_key")
  /\ IF ~Exists(files, FILE_REGISTRATION)
     THEN UNCHANGED << files, loc, log >>
     ELSE LET regr == Data(files, FILE_REGISTRATION) IN
          /\ loc' = [loc EXCEPT ![t].regr = << regr >>]
          /\ IF ~OriginDiffers(acme_server, regr.uri)
             THEN UNCHANGED << files, log >>
             ELSE /\ files' = Unlink(files, FILE_REGISTRATION)
                  /\ log' = [log EXCEPT ![t] =
                               @ \o << Event("unlink_registration", << >>, "ok", 0),
                                       Event("unlink_account_key", << >>, "ok", 0) >>]

\* lines 135-147: load the stored registration and drop it, with the account
\* key, when it was made at another origin.
ResetRegistration(t) ==
  /\ pc[t] = "create_client"
  /\ UNCHANGED << umask, acme_server, acme_client, account_jwk, ncalls, op, cid, pre, prev >>
  /\ IF ~Exists(files, FILE_REGISTRATION)
     THEN /\ Goto(t, "load_account_key")
          /\ UNCHANGED << files, loc, exc, log, outcome >>
     ELSE LET regr == Data(files, FILE_REGISTRATION) IN
          IF ~OriginDiffers(acme_server, regr.uri)
          THEN /\ Goto(t, "load_account_key")
               /\ loc' = [loc EXCEPT ![t].regr = << regr >>]
               /\ UNCHANGED << files, exc, log, outcome >>
          ELSE IF Exists(files, FILE_ACCOUNT_KEY)
          THEN /\ files' = Unlink(Unlink(files, FILE_REGISTRATION), FILE_ACCOUNT_KEY)
               /\ Goto(t, "load_account_key")
               /\ loc' = [loc EXCEPT ![t].regr = << regr >>]
               /\ log' = [log EXCEPT ![t] =
                            @ \o << Event("unlink_registration", << >>, "ok", 0),
                                    Event("unlink_account_key", << >>, "ok", 0) >>]
               /\ UNCHANGED << exc, outcome >>
          ELSE /\ files' = Unlink(files, FILE_REGISTRATION)
               /\ Logged(t, Event("unlink_registration", << >>, "ok", 0))
               /\ Raise(t, "FileNotFoundError")

\* LoadAccountKey that generates a key whether or not the file is there
LoadAccountKeyAlwaysNew(t) ==
  /\ pc[t] = "load_account_key"
  /\ Goto(t, "connect")
  /\ UNCHANGED << umask, acme_server, acme_client, ncalls, op, cid, loc, exc, outcome,
                  pre, prev >>
  /\ files' = Chmod(WriteFile(files, FILE_ACCOUNT_KEY, cid[t]), FILE_ACCOUNT_KEY, OwnerOnly)
  /\ account_jwk' = cid[t]
  /\ Logged(t, Event("create_account_key", << >>, "ok", 0))

\* _load_account_key, lines 104-131
LoadAccountKey(t) ==
  /\ pc[t] = "load_account_key"
  /\ Goto(t, "connect")
  /\ UNCHANGED << umask, acme_server, acme_client, ncalls, op, cid, loc, exc, outcome, pre, prev >>
  /\ IF Exists(files, FILE_ACCOUNT_KEY)
     THEN /\ account_jwk' = Data(files, FILE_ACCOUNT_KEY)
          /\ Logged(t, Event("load_account_key", << >>, "ok", 0))
          /\ UNCHANGED files
     ELSE /\ files' = Chmod(WriteFile(files, FILE_ACCOUNT_KEY, cid[t]),
                            FILE_ACCOUNT_KEY, OwnerOnly)
          /\ account_jwk' = cid[t]
          /\ Logged(t, Event("create_account_key", << >>, "ok", 0))

\* lines 152-163: the registration file is there, bind the client to it
ConnectExisting(t) ==
  /\ pc[t] = "connect"
  /\ Exists(files, FILE_REGISTRATION)
  /\ UNCHANGED << files, umask, acme_server, account_jwk, ncalls, op, cid, pre, prev >>
  /\ IF loc[t].regr = << >>
     THEN \* regr was never bound in this call
          /\ Raise(t, "UnboundLocalError")
          /\ UNCHANGED << acme_client, log >>
     ELSE \/ /\ acme_client' = << [key |-> account_jwk, account |-> loc[t].regr,
                                   directory |-> acme_server] >>
             /\ Logged(t, Event("get_directory", << >>, "ok", 0))
             /\ Goto(t, AfterCreateClient(t))
             /\ UNCHANGED << loc, exc, outcome >>
          \/ /\ Logged(t, Event("get_directory", << >>, "error", 0))
             /\ Raise(t, "AcmeClientError")
             /\ UNCHANGED acme_client

\* lines 165-172: no registration file, a client without account
ConnectNew(t) ==
  /\ pc[t] = "connect"
  /\ ~Exists(files, FILE_REGISTRATION)
  /\ UNCHANGED << files, umask, acme_server, account_jwk, ncalls, op, cid, pre, prev >>
  /\ \/ /\ acme_client' = << [key |-> account_jwk, account |-> << >>,
                              directory |-> acme_server] >>
        /\ Logged(t, Event("get_directory", << >>, "ok", 0))
        /\ Goto(t, "register")
        /\ UNCHANGED << loc, exc, outcome >>
     \/ /\ Logged(t, Event("get_directory", << >>, "error", 0))
        /\ Raise(t, "AcmeClientError")
        /\ UNCHANGED acme_client

\* RegisterAccount that writes the registration file before it knows how
\* new_account ended
RegisterAccountStoresFirst(t) ==
  /\ pc[t] = "register"
  /\ UNCHANGED << umask, acme_server, account_jwk, ncalls, op, cid, pre, prev >>
  /\ LET client == acme_client[1]
         regr == [uri |-> AccountUri(client.directory), key |-> client.key]
     IN  /\ files' = WriteFile(files, FILE_REGISTRATION, regr)
         /\ \/ /\ acme_client' = << [client EXCEPT !.account = << regr >>] >>
               /\ loc' = [loc EXCEPT ![t].regr = << regr >>]
               /\ Logged(t, Event("new_account", << >>, "ok", 0))
               /\ Goto(t, "store_registration")
               /\ UNCHANGED << exc, outcome >>
            \/ /\ Logged(t, Event("new_account", << >>, "error", 0))
               /\ Raise(t, "AcmeClientError")
               /\ UNCHANGED acme_client

\* lines 174-186: new_account
RegisterAccount(t) ==
  /\ pc[t] = "register"
  /\ UNCHANGED << files, umask, acme_server, account_jwk, ncalls, op, cid, pre, prev >>
  /\ \/ LET client == acme_client[1]
            regr == [uri |-> AccountUri(client.directory), key |-> client.key]
        IN  /\ acme_client' = << [client EXCEPT !.account = << regr >>] >>
            /\ loc' = [loc EXCEPT ![t].regr = << regr >>]
            /\ Logged(t, Event("new_account", << >>, "ok", 0))
            /\ Goto(t, "store_registration")
            /\ UNCHANGED << exc, outcome >>
     \/ /\ Logged(t, Event("new_account", << >>, "error", 0))
        /\ Raise(t, "AcmeClientError")
        /\ UNCHANGED acme_client

\* lines 188-190
StoreRegistration(t) ==
  /\ pc[t] = "store_registration"
  /\ files' = Chmod(WriteFile(files, FILE_REGISTRATION, loc[t].regr[1]),
                    FILE_REGISTRATION, OwnerOnly)
  /\ Logged(t, Event("write_registration", << >>, "ok", 0))
  /\ Goto(t, AfterCreateClient(t))
  /\ UNCHANGED << umask, acme_server, acme_client, account_jwk, ncalls, op, cid,
                  loc, exc, outcome, pre, prev >>

\* -------------------------------------------------------- _generate_csr
\* GenerateCsr with the write of the new key left out
GenerateCsrNotStored(t) ==
  /\ pc[t] = "generate_csr"
  /\ Goto(t, "new_order")
  /\ UNCHANGED << files, umask, acme_server, acme_client, account_jwk, ncalls, op, cid,
                  exc, outcome, pre, prev >>
  /\ IF Exists(files, FILE_PRIVATE_KEY)
     THEN /\ loc' = [loc EXCEPT ![t].csr = << Data(files, FILE_PRIVATE_KEY) >>]
          /\ Logged(t, Event("load_private_key", << >>, "ok", 0))
     ELSE /\ loc' = [loc EXCEPT ![t].csr = << cid[t] >>]
          /\ Logged(t, Event("create_private_key", << >>, "ok", 0))

\* lines 89-102: load or create the private key, make the CSR from it
GenerateCsr(t) ==
  /\ pc[t] = "generate_csr"
  /\ Goto(t, "new_order")
  /\ UNCHANGED << umask, acme_server, acme_client, account_jwk, ncalls, op, cid,
                  exc, outcome, pre, prev >>
  /\ IF Exists(files, FILE_PRIVATE_KEY)
     THEN /\ loc' = [loc EXCEPT ![t].csr = << Data(files, FILE_PRIVATE_KEY) >>]
          /\ Logged(t, Event("load_private_key", << >>, "ok", 0))
          /\ UNCHANGED files
     ELSE /\ files' = WriteFile(files, FILE_PRIVATE_KEY, cid[t])
          /\ loc' = [loc EXCEPT ![t].csr = << cid[t] >>]
          /\ Logged(t, Event("create_private_key", << >>, "ok", 0))

\* ------------------------------------------------------ _start_challenge
\* lines 194-199: new_order
NewOrder(t) ==
  /\ pc[t] = "new_order"
  /\ UNCHANGED << files, umask, acme_server, acme_client, account_jwk, ncalls, op,
                  cid, pre, prev >>
  /\ \/ \E auths \in Orders :
          /\ loc' = [loc EXCEPT ![t].order =
                       << [csr |-> loc[t].csr[1], account |-> acme_client[1].account,
                           authorizations |-> auths] >>]
          /\ Logged(t, Event("new_order", << >>, "ok", 0))
          /\ Goto(t, "find_challenge")
          /\ UNCHANGED << exc, outcome >>
     \/ /\ Logged(t, Event("new_order", << >>, "error", 0))
        /\ Raise(t, "AcmeChallengeError")

\* lines 201-218: keep the last dns-01 challenge of the scan, compute its
\* response and validation
FindChallenge(t) ==
  /\ pc[t] = "find_challenge"
  /\ UNCHANGED << files, umask, acme_server, acme_client, account_jwk, ncalls, op,
                  cid, pre, prev >>
  /\ LET order == loc[t].order[1]
         dns_challenge == FindDnsChallenge(order)
     IN  IF dns_challenge = << >>
         THEN \* None.response_and_validation
              /\ Raise(t, "AttributeError")
              /\ Logged(t, Event("select_challenge", << >>, "none", 0))
         ELSE \/ LET validation == Validation(dns_challenge[1], account_jwk) IN
                 /\ loc' = [loc EXCEPT ![t].challenge =
                              << [challenge |-> dns_challenge[1], order |-> order,
                                  response |-> validation, validation |-> validation] >>]
                 /\ Logged(t, Event("select_challenge", << validation >>, "ok", 0))
                 /\ Goto(t, "publish")
                 /\ UNCHANGED << exc, outcome >>
              \/ /\ Logged(t, Event("select_challenge", << >>, "error", 0))
                 /\ Raise(t, "AcmeChallengeError")

\* ------------------------------------------------- issue_certificate
\* PublishToken with the look at the status left out
PublishTokenAnyStatus(t) ==
  /\ pc[t] = "publish"
  /\ UNCHANGED << files, umask, acme_server, acme_client, account_jwk, ncalls, op,
                  cid, pre, prev >>
  /\ LET validation == loc[t].challenge[1].validation IN
     \/ /\ Logged(t, Event("publish", << validation >>, "timeout", 0))
        /\ Raise(t, "TimeoutError")
     \/ \E status \in Statuses :
          /\ Logged(t, Event("publish", << validation >>, "response", status))
          /\ Goto(t, "wait")
          /\ UNCHANGED << loc, exc, outcome >>

\* PublishToken that takes every 2xx status for success
PublishTokenAny2xx(t) ==
  /\ pc[t] = "publish"
  /\ UNCHANGED << files, umask, acme_server, acme_client, account_jwk, ncalls, op,
                  cid, pre, prev >>
  /\ LET validation == loc[t].challenge[1].validation IN
     \/ /\ Logged(t, Event("publish", << validation >>, "timeout", 0))
        /\ Raise(t, "TimeoutError")
     \/ \E status \in Statuses :
          /\ Logged(t, Event("publish", << validation >>, "response", status))
          /\ IF status \notin 200 .. 299
             THEN Raise(t, "AcmeNabuCasaError")
             ELSE /\ Goto(t, "wait")
                  /\ UNCHANGED << loc, exc, outcome >>

\* lines 328-336: publish the TXT value under the timeout, then look at the
\* status
PublishToken(t) ==
  /\ pc[t] = "publish"
  /\ UNCHANGED << files, umask, acme_server, acme_client, account_jwk, ncalls, op,
                  cid, pre, prev >>
  /\ LET validation == loc[t].challenge[1].validation IN
     \/ \* async_timeout expires
        /\ Logged(t, Event("publish", << validation >>, "timeout", 0))
        /\ Raise(t, "TimeoutError")
     \/ \E status \in Statuses :
          /\ Logged(t, Event("publish", << validation >>, "response", status))
          /\ IF status # StatusOK
             THEN Raise(t, "AcmeNabuCasaError")
             ELSE /\ Goto(t, "wait")
                  /\ UNCHANGED << loc, exc, outcome >>

\* lines 339-341: asyncio.sleep inside the try
WaitPropagation(t) ==
  /\ pc[t] = "wait"
  /\ Logged(t, Event("wait", << >>, "ok", 0))
  /\ Goto(t, "answer_challenge")
  /\ UNCHANGED << files, umask, acme_server, acme_client, account_jwk, ncalls, op,
                  cid, loc, exc, outcome, pre, prev >>

\* AnswerChallenge outside any try/finally: its error leaves the call at once
AnswerChallengeNoFinally(t) ==
  /\ pc[t] = "answer_challenge"
  /\ UNCHANGED << files, umask, acme_server, acme_client, account_jwk, ncalls, op,
                  cid, pre, prev >>
  /\ \/ /\ Logged(t, Event("answer_challenge", << >>, "ok", 0))
        /\ Goto(t, "poll_and_finalize")
        /\ UNCHANGED << loc, exc, outcome >>
     \/ /\ Logged(t, Event("answer_challenge", << >>, "error", 0))
        /\ Raise(t, "AcmeChallengeError")

\* _finish_challenge, lines 222-227
AnswerChallenge(t) ==
  /\ pc[t] = "answer_challenge"
  /\ UNCHANGED << files, umask, acme_server, acme_client, account_jwk, ncalls, op,
                  cid, loc, outcome, pre, prev >>
  /\ \/ /\ Logged(t, Event("answer_challenge", << >>, "ok", 0))
        /\ Goto(t, "poll_and_finalize")
        /\ UNCHANGED exc
     \/ /\ Logged(t, Event("answer_challenge", << >>, "error", 0))
        /\ exc' = [exc EXCEPT ![t] = "AcmeChallengeError"]
        /\ Goto(t, "cleanup")

\* _finish_challenge, lines 229-233
PollAndFinalize(t) ==
  /\ pc[t] = "poll_and_finalize"
  /\ UNCHANGED << files, umask, acme_server, acme_client, account_jwk, ncalls, op,
                  cid, outcome, pre, prev >>
  /\ \/ \E na \in Times :
          /\ loc' = [loc EXCEPT ![t].fullchain =
                       << [serial |-> cid[t], not_valid_after |-> na,
                           key |-> loc[t].challenge[1].order.csr] >>]
          /\ Logged(t, Event("poll_and_finalize", << >>, "ok", 0))
          /\ Goto(t, "store_fullchain")
          /\ UNCHANGED exc
     \/ /\ Logged(t, Event("poll_and_finalize", << >>, "error", 0))
        /\ exc' = [exc EXCEPT ![t] = "AcmeChallengeError"]
        /\ Goto(t, "cleanup")
        /\ UNCHANGED loc

\* _finish_challenge, lines 235-243: unlink the old chain, write the new one
StoreFullchain(t) ==
  /\ pc[t] = "store_fullchain"
  /\ files' = Chmod(WriteFile(Unlink(files, FILE_FULLCHAIN), FILE_FULLCHAIN,
                              loc[t].fullchain[1]),
                    FILE_FULLCHAIN, OwnerOnly)
  /\ Logged(t, Event("write_fullchain", << >>, "ok", 0))
  /\ Goto(t, "cleanup")
  /\ UNCHANGED << umask, acme_server, acme_client, account_jwk, ncalls, op, cid,
                  loc, exc, outcome, pre, prev >>

\* CleanupToken as an else branch instead of a finally: a pending exception
\* leaves the call without the cleanup call
CleanupTokenOnSuccessOnly(t) ==
  /\ pc[t] = "cleanup"
  /\ UNCHANGED << files, umask, acme_server, acme_client, account_jwk, ncalls, op,
                  cid, pre, prev >>
  /\ IF exc[t] # ""
     THEN /\ Raise(t, exc[t])
          /\ UNCHANGED log
     ELSE LET validation == loc[t].challenge[1].validation IN
          \/ /\ Logged(t, Event("cleanup", << validation >>, "ok", 0))
             /\ Return(t)
          \/ /\ Logged(t, Event("cleanup", << validation >>, "error", 0))
             /\ Raise(t, "ClientError")

\* lines 343-344: the finally block; an exception of the cleanup call replaces
\* the one that was pending
CleanupToken(t) ==
  /\ pc[t] = "cleanup"
  /\ UNCHANGED << files, umask, acme_server, acme_client, account_jwk, ncalls, op,
                  cid, pre, prev >>
  /\ LET validation == loc[t].challenge[1].validation IN
     \/ /\ Logged(t, Event("cleanup", << validation >>, "ok", 0))
        /\ IF exc[t] = "" THEN Return(t) ELSE Raise(t, exc[t])
     \/ /\ Logged(t, Event("cleanup", << validation >>, "error", 0))
        /\ Raise(t, "ClientError")

\* -------------------------------------------------- _revoke_certificate
\* lines 278-286: nothing to revoke, or read the chain
RevokeCheck(t) ==
  /\ pc[t] = "revoke"
  /\ UNCHANGED << files, umask, acme_server, acme_client, account_jwk, ncalls, op,
                  cid, exc, outcome, pre, prev, log >>
  /\ IF ~Exists(files, FILE_FULLCHAIN)
     THEN /\ Goto(t, "deactivate")
          /\ UNCHANGED loc
     ELSE /\ loc' = [loc EXCEPT ![t].cert = << Data(files, FILE_FULLCHAIN) >>]
          /\ Goto(t, "revoke_call")

\* RevokeCall without the except clause for ConflictError
RevokeCallConflictRaises(t) ==
  /\ pc[t] = "revoke_call"
  /\ UNCHANGED << files, umask, acme_server, acme_client, account_jwk, ncalls, op,
                  cid, pre, prev >>
  /\ \/ /\ Logged(t, Event("revoke", << >>, "ok", 0))
        /\ Goto(t, "revoke_unlink")
        /\ UNCHANGED << loc, exc, outcome >>
     \/ /\ \E res \in {"ConflictError", "error"} :
             Logged(t, Event("revoke", << >>, res, 0))
        /\ Raise(t, "AcmeClientError")

\* lines 288-295: revoke; ConflictError (already revoked) passes
RevokeCall(t) ==
  /\ pc[t] = "revoke_call"
  /\ UNCHANGED << files, umask, acme_server, acme_client, account_jwk, ncalls, op,
                  cid, pre, prev >>
  /\ \/ /\ \E res \in {"ok", "ConflictError"} :
             Logged(t, Event("revoke", << >>, res, 0))
        /\ Goto(t, "revoke_unlink")
        /\ UNCHANGED << loc, exc, outcome >>
     \/ /\ Logged(t, Event("revoke", << >>, "error", 0))
        /\ Raise(t, "AcmeClientError")

\* lines 297-298: unlink the chain, then the private key
RevokeUnlink(t) ==
  /\ pc[t] = "revoke_unlink"
  /\ UNCHANGED << umask, acme_server, acme_client, account_jwk, ncalls, op, cid, pre, prev >>
  /\ IF ~Exists(files, FILE_FULLCHAIN)
     THEN /\ Raise(t, "FileNotFoundError")
          /\ UNCHANGED << files, log >>
     ELSE IF ~Exists(files, FILE_PRIVATE_KEY)
     THEN /\ files' = Unlink(files, FILE_FULLCHAIN)
          /\ Logged(t, Event("unlink_fullchain", << >>, "ok", 0))
          /\ Raise(t, "FileNotFoundError")
     ELSE /\ files' = Unlink(Unlink(files, FILE_FULLCHAIN), FILE_PRIVATE_KEY)
          /\ log' = [log EXCEPT ![t] =
                       @ \o << Event("unlink_fullchain", << >>, "ok", 0),
                               Event("unlink_private_key", << >>, "ok", 0) >>]
          /\ Goto(t, "deactivate")
          /\ UNCHANGED << loc, exc, outcome >>

\* -------------------------------------------------- _deactivate_account
\* lines 302-308: no registration, nothing to do; else load it
DeactivateCheck(t) ==
  /\ pc[t] = "deactivate"
  /\ UNCHANGED << files, umask, acme_server, acme_client, account_jwk, ncalls, op,
                  cid, pre, prev, log >>
  /\ IF ~Exists(files, FILE_REGISTRATION)
     THEN Return(t)
     ELSE /\ loc' = [loc EXCEPT ![t].regr = << Data(files, FILE_REGISTRATION) >>]
          /\ Goto(t, "deactivate_call")
          /\ UNCHANGED << exc, outcome >>

\* lines 310-314: deactivate_registration
DeactivateCall(t) ==
  /\ pc[t] = "deactivate_call"
  /\ UNCHANGED << files, umask, acme_server, acme_client, account_jwk, ncalls, op,
                  cid, pre, prev >>
  /\ \/ /\ Logged(t, Event("deactivate", << >>, "ok", 0))
        /\ Goto(t, "deactivate_unlink")
        /\ UNCHANGED << loc, exc, outcome >>
     \/ /\ Logged(t, Event("deactivate", << >>, "error", 0))
        /\ Raise(t, "AcmeClientError")

\* lines 316-317: unlink the registration, then the account key; the client
\* and the key in memory stay as they are
DeactivateUnlink(t) ==
  /\ pc[t] = "deactivate_unlink"
  /\ UNCHANGED << umask, acme_server, acme_client, account_jwk, ncalls, op, cid, pre, prev >>
  /\ IF ~Exists(files, FILE_REGISTRATION)
     THEN /\ Raise(t, "FileNotFoundError")
          /\ UNCHANGED << files, log >>
     ELSE IF ~Exists(files, FILE_ACCOUNT_KEY)
     THEN /\ files' = Unlink(files, FILE_REGISTRATION)
          /\ Logged(t, Event("unlink_registration", << >>, "ok", 0))
          /\ Raise(t, "FileNotFoundError")
     ELSE /\ files' = Unlink(Unlink(files, FILE_REGISTRATION), FILE_ACCOUNT_KEY)
          /\ log' = [log EXCEPT ![t] =
                       @ \o << Event("unlink_registration", << >>, "ok", 0),
                               Event("unlink_account_key", << >>, "ok", 0) >>]
          /\ Return(t)

\* ------------------------------------------------------ process death
\* What the store can hold when the process dies while task t is inside the
\* step it stands before: the step not begun, or stopped between two of its
\* file operations.
CrashFiles(t) ==
  {files} \cup
  CASE pc[t] = "create_client" ->
         \* after line 146, before line 147
         IF Exists(files, FILE_REGISTRATION)
            /\ OriginDiffers(acme_server, Data(files, FILE_REGISTRATION).uri)
         THEN {Unlink(files, FILE_REGISTRATION)} ELSE {}
    [] pc[t] = "load_account_key" ->
         \* after line 128, before line 129
         IF ~Exists(files, FILE_ACCOUNT_KEY)
         THEN {WriteFile(files, FILE_ACCOUNT_KEY, cid[t])} ELSE {}
    [] pc[t] = "store_registration" ->
         \* after line 189, before line 190
         {WriteFile(files, FILE_REGISTRATION, loc[t].regr[1])}
    [] pc[t] = "store_fullchain" ->
         \* after line 238, and after line 242 before line 243
         {Unlink(files, FILE_FULLCHAIN),
          WriteFile(Unlink(files, FILE_FULLCHAIN), FILE_FULLCHAIN, loc[t].fullchain[1])}
    [] pc[t] = "revoke_unlink" ->
         \* after line 297, before line 298
         {Unlink(files, FILE_FULLCHAIN)}
    [] pc[t] = "deactivate_unlink" ->
         \* after line 316, before line 317
         {Unlink(files, FILE_REGISTRATION)}
    [] OTHER -> {}

\* The process dies in the middle of an invocation and a new handler is
\* constructed over what it left on disk.
Crash ==
  /\ \E t \in Tasks : ~Idle(t) /\ files' \in CrashFiles(t)
  /\ \E s \in Servers : acme_server' = s
  /\ acme_client' = << >>
  /\ account_jwk' = 0
  /\ pc' = [t \in Tasks |-> "idle"]
  /\ op' = [t \in Tasks |-> "none"]
  /\ cid' = [t \in Tasks |-> 0]
  /\ loc' = [t \in Tasks |-> NoLocals]
  /\ exc' = [t \in Tasks |-> ""]
  /\ log' = [t \in Tasks |-> << >>]
  /\ outcome' = [t \in Tasks |-> ""]
  /\ pre' = [t \in Tasks |-> NoFiles]
  /\ prev' = [t \in Tasks |-> NoCall]
  /\ UNCHANGED << umask, ncalls >>

\* ------------------------------------------------------ specifications
\* every step of an invocation after its entry
Step(t) ==
  \/ ResetRegistration(t)
  \/ LoadAccountKey(t)
  \/ ConnectExisting(t)
  \/ ConnectNew(t)
  \/ RegisterAccount(t)
  \/ StoreRegistration(t)
  \/ GenerateCsr(t)
  \/ NewOrder(t)
  \/ FindChallenge(t)
  \/ PublishToken(t)
  \/ WaitPropagation(t)
  \/ AnswerChallenge(t)
  \/ PollAndFinalize(t)
  \/ StoreFullchain(t)
  \/ CleanupToken(t)
  \/ RevokeCheck(t)
  \/ RevokeCall(t)
  \/ RevokeUnlink(t)
  \/ DeactivateCheck(t)
  \/ DeactivateCall(t)
  \/ DeactivateUnlink(t)

\* One caller, which awaits each call before it makes the next: the use the
\* handler is written for.
Next ==
  \/ Construct
  \/ Crash
  \/ \E t \in SeqTasks : StartIssue(t, MaxCalls) \/ StartRemove(t, MaxCalls) \/ Step(t)

Spec == Init /\ [][Next]_vars

\* Callers that do not wait for one another: the coroutines interleave at
\* every await, and the executor runs their blocking parts in parallel.
NextConc ==
  \/ Construct
  \/ \E t \in Tasks : StartIssue(t, ConcCalls) \/ StartRemove(t, ConcCalls) \/ Step(t)

SpecConc == Init /\ [][NextConc]_vars

\* ------------------------------------------ _start_challenge on its own
\* sequences over S of length at most n
BoundedSeq(S, n) == UNION { [1 .. k -> S] : k \in 0 .. n }

ChallTypes == {"dns-01", "http-01"}

\* every order of at most MaxAuths authorizations of at most MaxChalls
\* challenges each; the token of a challenge is its place in the order
GeneratedOrders ==
  { [a \in 1 .. Len(ts) |->
       [c \in 1 .. Len(ts[a]) |-> Chall(ts[a][c], (a - 1) * MaxChalls + c)]] :
    ts \in BoundedSeq(BoundedSeq(ChallTypes, MaxChalls), MaxAuths) }

\* the log of a first issuance up to and including new_order
OrderedOps ==
  << "enter", "create_account_key", "get_directory", "new_account",
     "write_registration", "create_private_key", "new_order" >>

\* A first issuance that has just received its order from new_order: the
\* state NewOrder leaves, for every generated order.
InitScan ==
  LET regr == [uri |-> AccountUri(acme_server), key |-> 1] IN
  /\ umask \in Umasks
  /\ acme_server \in Servers
  /\ files = [NoFiles EXCEPT
                ![FILE_ACCOUNT_KEY] = << [data |-> 1, mode |-> OwnerOnly] >>,
                ![FILE_REGISTRATION] = << [data |-> regr, mode |-> OwnerOnly] >>,
                ![FILE_PRIVATE_KEY] = << [data |-> 1, mode |-> CreateMode] >>]
  /\ acme_client = << [key |-> 1, account |-> << regr >>, directory |-> acme_server] >>
  /\ account_jwk = 1
  /\ ncalls = 1
  /\ pc = [t \in Tasks |-> IF t \in SeqTasks THEN "find_challenge" ELSE "idle"]
  /\ op = [t \in Tasks |-> IF t \in SeqTasks THEN "issue" ELSE "none"]
  /\ cid = [t \in Tasks |-> IF t \in SeqTasks THEN 1 ELSE 0]
  /\ \E auths \in GeneratedOrders :
       loc = [t \in Tasks |->
                IF t \in SeqTasks
                THEN [NoLocals EXCEPT
                        !.regr = << regr >>, !.csr = << 1 >>,
                        !.order = << [csr |-> 1, account |-> << regr >>,
                                      authorizations |-> auths] >>]
                ELSE NoLocals]
  /\ exc = [t \in Tasks |-> ""]
  /\ log = [t \in Tasks |->
              IF t \in SeqTasks
              THEN [i \in DOMAIN OrderedOps |->
                      Event(OrderedOps[i], << >>,
                            IF i = 1 THEN "no_client" ELSE "ok", 0)]
              ELSE << >>]
  /\ outcome = [t \in Tasks |-> ""]
  /\ pre = [t \in Tasks |-> NoFiles]
  /\ prev = [t \in Tasks |-> NoCall]

NextScan == \E t \in SeqTasks : FindChallenge(t)

SpecScan == InitScan /\ [][NextScan]_vars

\* ------------------------------------------------ reading an invocation
\* the invocation of task t has ended (returned or raised)
Finished(t) == Idle(t) /\ outcome[t] # ""
IssueDone(t) == Finished(t) /\ op[t] = "issue"

Events(t) == { log[t][i] : i \in DOMAIN log[t] }
Has(t, name) == \E e \in Events(t) : e.op = name
Failed(t, name) == \E e \in Events(t) : e.op = name /\ e.res = "error"
LastEvent(t) == log[t][Len(log[t])]
Ops(t) == [i \in DOMAIN log[t] |-> log[t][i].op]

\* the publish call came back with status 200
Published(t) ==
  \E e \in Events(t) : e.op = "publish" /\ e.res = "response" /\ e.status = StatusOK
\* the TXT value handed to the publish call
PublishedValue(t) == (CHOOSE e \in Events(t) : e.op = "publish").arg
\* answer_challenge or poll_and_finalize raised errors.Error
FinalizeFailed(t) == Failed(t, "answer_challenge") \/ Failed(t, "poll_and_finalize")
\* 2xx
IsSuccessStatus(status) == status \in 200 .. 299

DomainErrors == {"AcmeClientError", "AcmeChallengeError", "AcmeNabuCasaError"}

C2_PublishRefused ==
  \A t \in Tasks :
    (IssueDone(t) /\ \E e \in Events(t) :
        e.op = "publish" /\ e.res = "response" /\ ~IsSuccessStatus(e.status)) =>
      /\ outcome[t] = "AcmeNabuCasaError"
      /\ ~Has(t, "answer_challenge")
      /\ ~Has(t, "poll_and_finalize")
      /\ ~Has(t, "write_fullchain")
      /\ files[FILE_FULLCHAIN] = pre[t][FILE_FULLCHAIN]

\* publish answered 503 on a renewal
C2_Witness ==
  \E t \in Tasks :
    /\ IssueDone(t)
    /\ \E e \in Events(t) : e.op = "publish" /\ e.status = 503
    /\ outcome[t] = "AcmeNabuCasaError"
    /\ Exists(files, FILE_FULLCHAIN)

\* ----------------------------------------------------------------- C3
\* C3: when a challenge was started and the publish step fails (non-success
\* status or timeout), the cleanup call has been made with the same
\* validation value by the time the call has ended.
C3_CleanupAfterPublishFailure ==
  \A t \in Tasks :
    (IssueDone(t) /\ \E e \in Events(t) :
        e.op = "publish" /\ (e.res = "timeout" \/ ~IsSuccessStatus(e.status))) =>
      \E c \in Events(t) : c.op = "cleanup" /\ c.arg = PublishedValue(t)

\* ----------------------------------------------------------------- C4
\* C4: a cleanup call that fails does not change how the call ends: OK when
\* the finalize step succeeded, AcmeChallengeError when it failed.
C4_CleanupFailureSuppressed ==
  \A t \in Tasks :
    (IssueDone(t) /\ Failed(t, "cleanup")) =>
      outcome[t] = IF FinalizeFailed(t) THEN "AcmeChallengeError" ELSE "OK"

\* ----------------------------------------------------------------- C5
\* C5: at most one invocation of issue_certificate / remove_acme is in
\* flight at any time.
C5_OneInFlight == Cardinality({ t \in Tasks : ~Idle(t) }) <= 1

\* ----------------------------------------------------------------- C6
\* C6: a call either returns and the fullchain file holds the chain issued in
\* this call, or raises and the fullchain file is as it was.
C6_AllOrNothing ==
  \A t \in Tasks :
    IssueDone(t) =>
      \/ /\ outcome[t] = "OK"
         /\ Exists(files, FILE_FULLCHAIN)
         /\ Data(files, FILE_FULLCHAIN).serial = cid[t]
      \/ /\ outcome[t] # "OK"
         /\ files[FILE_FULLCHAIN] = pre[t][FILE_FULLCHAIN]

\* ----------------------------------------------------------------- C7
\* C7: when an ACME call, the publish call, the cleanup call or the publish
\* timeout failed, what the caller sees is one of the three domain errors
\* (or a normal return).
C7_OnlyDomainErrors ==
  \A t \in Tasks :
    (Finished(t) /\ \E e \in Events(t) :
        e.res \in {"error", "timeout"} \/ (e.op = "publish" /\ e.status # StatusOK)) =>
      outcome[t] \in DomainErrors \cup {"OK"}

\* ----------------------------------------------------------------- C8
\* C8: an order without any dns-01 challenge ends the call with
\* AcmeChallengeError, and no publish call is made.
C8_NoDnsChallenge ==
  \A t \in Tasks :
    (IssueDone(t) /\ \E e \in Events(t) : e.op = "select_challenge" /\ e.res = "none") =>
      /\ outcome[t] = "AcmeChallengeError"
      /\ ~Has(t, "publish")

\* ----------------------------------------------------------------- C9
\* every call the invocation made came back with success (publish: 200)
AllSucceeded(t) ==
  \A e \in Events(t) :
    /\ e.res \in {"ok", "response", "no_client", "client"}
    /\ (e.op = "publish" => e.status = StatusOK)

\* the steps of a first issuance, in order
FreshIssueOps ==
  << "enter", "create_account_key", "get_directory", "new_account",
     "write_registration", "create_private_key", "new_order", "select_challenge",
     "publish", "wait", "answer_challenge", "poll_and_finalize", "write_fullchain",
     "cleanup" >>

\* the call started on an empty store with a handler that holds no client
FreshStart(t) == pre[t] = NoFiles /\ log[t][1].res = "no_client"

\* C9: a first issuance (no files, new handler) in which every external call
\* succeeds does exactly the steps of FreshIssueOps in that order and
\* returns; all four files then exist, and is_valid_certificate is true at
\* every instant before the chain's not-valid-after.
C9_FreshIssue ==
  \A t \in Tasks :
    (IssueDone(t) /\ FreshStart(t) /\ AllSucceeded(t)) =>
      /\ outcome[t] = "OK"
      /\ Ops(t) = FreshIssueOps
      /\ \A f \in FileNames : Exists(files, f)
      /\ \A now \in Times :
           Data(files, FILE_FULLCHAIN).not_valid_after > now =>
             IsValidCertificate(files, now)

\* a first issuance that returned with a chain valid at instant 0
C9_Witness ==
  \E t \in Tasks :
    /\ IssueDone(t) /\ FreshStart(t) /\ AllSucceeded(t)
    /\ outcome[t] = "OK"
    /\ IsValidCertificate(files, 0)

\* ---------------------------------------------------------------- C10
\* _create_client ran in this invocation, found a registration made at
\* another origin than the configured directory, and has passed lines 135-147
OriginMismatch(t) ==
  /\ op[t] # "none"
  /\ log[t][1].res = "no_client"
  /\ pc[t] # "create_client"
  /\ Exists(pre[t], FILE_REGISTRATION)
  /\ OriginDiffers(acme_server, Data(pre[t], FILE_REGISTRATION).uri)

\* the steps of _create_client after a mismatch, in order
ResetOps ==
  << "enter", "unlink_registration", "unlink_account_key", "create_account_key",
     "get_directory", "new_account", "write_registration" >>

\* C10: after an origin mismatch the two unlinks come first, then the new
\* account key, the directory fetch, new_account and the write of the
\* registration; the old registration and the old account key are never on
\* disk again during the call, and once _create_client has written the
\* registration it is the one new_account returned for the new key.
C10_ResetOnOriginChange ==
  \A t \in Tasks :
    OriginMismatch(t) =>
      /\ \A i \in 1 .. Len(ResetOps) : i <= Len(log[t]) => log[t][i].op = ResetOps[i]
      /\ Len(log[t]) >= 3
      /\ files[FILE_REGISTRATION] # pre[t][FILE_REGISTRATION]
      /\ files[FILE_ACCOUNT_KEY] # pre[t][FILE_ACCOUNT_KEY]
      /\ (LastEvent(t).op = "write_registration" =>
            /\ Data(files, FILE_ACCOUNT_KEY) = cid[t]
            /\ Data(files, FILE_REGISTRATION) =
                 [uri |-> AccountUri(acme_server), key |-> cid[t]]
            /\ acme_client[1].account = << Data(files, FILE_REGISTRATION) >>)

\* _create_client has just stored the new registration after a mismatch
C10_Witness ==
  \E t \in Tasks :
    /\ OriginMismatch(t)
    /\ LastEvent(t).op = "write_registration"
    /\ Exists(files, FILE_REGISTRATION)

\* ---------------------------------------------------------------- C11
\* C11: in every state, also inside a call and after a call that failed or
\* was cut short by the death of the process, the registration file exists
\* only if the account key file exists and holds the key the registration
\* was made with.
C11_MatchedPair ==
  Exists(files, FILE_REGISTRATION) =>
    /\ Exists(files, FILE_ACCOUNT_KEY)
    /\ Data(files, FILE_REGISTRATION).key = Data(files, FILE_ACCOUNT_KEY)

\* a pair on disk that replaced an earlier one: the key is not the first
\* invocation's
C11_Witness ==
  /\ Exists(files, FILE_REGISTRATION)
  /\ Exists(files, FILE_ACCOUNT_KEY)
  /\ Data(files, FILE_ACCOUNT_KEY) > 1

\* ---------------------------------------------------------------- C12
RemoveDone(t) == Finished(t) /\ op[t] = "remove"

\* C12: remove_acme on a store with neither fullchain nor registration
\* returns normally, leaves the store as it found it, and makes no
\* new_account, revoke or deactivate call.
C12_RemoveNoOp ==
  \A t \in Tasks :
    (RemoveDone(t) /\ ~Exists(pre[t], FILE_FULLCHAIN)
                   /\ ~Exists(pre[t], FILE_REGISTRATION)) =>
      /\ outcome[t] = "OK"
      /\ files = pre[t]
      /\ ~Has(t, "new_account")
      /\ ~Has(t, "revoke")
      /\ ~Has(t, "deactivate")

\* ---------------------------------------------------------------- C13
\* the revoke call of the invocation was answered with ConflictError
RevokeConflict(t) ==
  op[t] = "remove" /\ \E e \in Events(t) : e.op = "revoke" /\ e.res = "ConflictError"

\* C13: after ConflictError on revoke the call goes on: it unlinks the
\* fullchain and the private key, then runs _deactivate_account; if it raises
\* at all, it is because deactivate_registration failed.
C13_ConflictIsSuccess ==
  \A t \in Tasks :
    RevokeConflict(t) =>
      /\ pc[t] \in {"revoke_unlink", "deactivate", "deactivate_call",
                    "deactivate_unlink", "idle"}
      /\ (pc[t] # "revoke_unlink" =>
            /\ Has(t, "unlink_fullchain") /\ Has(t, "unlink_private_key")
            /\ ~Exists(files, FILE_FULLCHAIN)
            /\ ~Exists(files, FILE_PRIVATE_KEY))
      /\ (Finished(t) =>
            \/ /\ outcome[t] = "OK"
               /\ ~Exists(files, FILE_REGISTRATION)
               /\ (Exists(pre[t], FILE_REGISTRATION) \/ Has(t, "write_registration")
                     => Has(t, "deactivate"))
            \/ /\ outcome[t] = "AcmeClientError"
               /\ Failed(t, "deactivate"))

\* a Remove that met ConflictError, deactivated the account and returned
C13_Witness ==
  \E t \in Tasks :
    /\ RevokeConflict(t) /\ Finished(t)
    /\ outcome[t] = "OK"
    /\ Has(t, "deactivate")
    /\ Exists(pre[t], FILE_FULLCHAIN)

\* ---------------------------------------------------------------- C14
\* C14: when the directory fetch or new_account fails in _create_client the
\* call ends with AcmeClientError and the store holds no registration file
\* other than the one it held before; and a registration file is written
\* only after a new_account call of the same invocation succeeded.
C14_NoPartialRegistration ==
  \A t \in Tasks :
    /\ (Finished(t) /\ (Failed(t, "get_directory") \/ Failed(t, "new_account"))) =>
         /\ outcome[t] = "AcmeClientError"
         /\ (Exists(files, FILE_REGISTRATION) =>
               files[FILE_REGISTRATION] = pre[t][FILE_REGISTRATION])
    /\ \A i \in DOMAIN log[t] :
         log[t][i].op = "write_registration" =>
           \E j \in 1 .. (i - 1) : log[t][j].op = "new_account" /\ log[t][j].res = "ok"

\* new_account failed on a store without registration
C14_Witness ==
  \E t \in Tasks :
    /\ Finished(t) /\ Failed(t, "new_account")
    /\ outcome[t] = "AcmeClientError"
    /\ ~Exists(files, FILE_REGISTRATION)
    /\ Exists(files, FILE_ACCOUNT_KEY)

\* ---------------------------------------------------------------- C15
\* C15: after an issue_certificate call has ended every file of the store
\* that exists has mode 0600.
C15_OwnerOnlyFiles ==
  \A t \in Tasks :
    IssueDone(t) => \A f \in FileNames : Exists(files, f) => Mode(files, f) = OwnerOnly

\* ---------------------------------------------------------------- C16
\* the registration of the key the client signs with is on disk
Bootstrapped ==
  /\ Exists(files, FILE_REGISTRATION)
  /\ Exists(files, FILE_ACCOUNT_KEY)
  /\ Data(files, FILE_ACCOUNT_KEY) = account_jwk
  /\ Data(files, FILE_REGISTRATION).key = account_jwk

\* C16: whenever new_order has just been submitted, the registration for the
\* current account key is on disk.
C16_OrderOnlyWhenBootstrapped ==
  \A t \in Tasks :
    (log[t] # << >> /\ LastEvent(t).op = "new_order") => Bootstrapped

\* ---------------------------------------------------------------- C17
\* positions of the events of a kind in the log of t
Positions(t, name) == { i \in DOMAIN log[t] : log[t][i].op = name }

\* C17: within one issue_certificate call, answer_challenge and
\* poll_and_finalize come only after a publish call that returned success and
\* after the wait; the cleanup call is made at most once, with the published
\* value; and a call that ended after a successful publish has made it
\* exactly once, as its last step, after the finalize attempt.
C17_CallOrder ==
  \A t \in Tasks :
    /\ \A i \in Positions(t, "answer_challenge") \cup Positions(t, "poll_and_finalize") :
         \E j \in Positions(t, "publish"), k \in Positions(t, "wait") :
           /\ j < k /\ k < i
           /\ log[t][j].res = "response"
           /\ IsSuccessStatus(log[t][j].status)
    /\ Cardinality(Positions(t, "cleanup")) <= 1
    /\ \A i \in Positions(t, "cleanup") :
         /\ log[t][i].arg = PublishedValue(t)
         /\ \E j \in Positions(t, "answer_challenge") : j < i
    /\ (IssueDone(t) /\ Published(t)) =>
         /\ Cardinality(Positions(t, "cleanup")) = 1
         /\ LastEvent(t).op = "cleanup"

\* a call whose finalize attempt failed after a successful publish
C17_Witness ==
  \E t \in Tasks :
    /\ IssueDone(t) /\ Published(t) /\ Failed(t, "answer_challenge")
    /\ LastEvent(t).op = "cleanup"

\* ---------------------------------------------------------------- C18
\* C18: a remove_acme in which every external call succeeds, run on the
\* handler whose previous remove_acme ended with a protocol failure, leaves
\* none of the four files on disk.
C18_RemoveRetry ==
  \A t \in Tasks :
    (RemoveDone(t) /\ AllSucceeded(t)
       /\ prev[t].op = "remove" /\ prev[t].outcome = "AcmeClientError") =>
      files = NoFiles

\* ---------------------------------------------------------------- C19
\* what the call does with a publish response, given the statuses it is to
\* take for success: on success it goes on to the wait and the finalize
\* step, otherwise it ends at once with AcmeNabuCasaError
PublishDecides(t, success) ==
  \A e \in Events(t) :
    (e.op = "publish" /\ e.res = "response") =>
      IF e.status \in success
      THEN /\ pc[t] = "wait" \/ Has(t, "wait")
           /\ outcome[t] # "AcmeNabuCasaError"
           /\ (Finished(t) => Has(t, "answer_challenge"))
      ELSE /\ Finished(t)
           /\ outcome[t] = "AcmeNabuCasaError"
           /\ ~Has(t, "wait")
           /\ ~Has(t, "answer_challenge")

\* C19: the publish response is a success exactly when its status
\* is 2xx.
C19_SuccessIs2xx == \A t \in Tasks : PublishDecides(t, 200 .. 299)

\* What the code does instead (C19): the publish response is a success
\* exactly when its status is 200; every other status, the other 2xx ones included, ends the call
\* with AcmeNabuCasaError.
C19_SuccessIs200 == \A t \in Tasks : PublishDecides(t, {StatusOK})

\* a publish answered 204 that ended the call with AcmeNabuCasaError
C19_Witness ==
  \E t \in Tasks :
    /\ IssueDone(t)
    /\ \E e \in Events(t) : e.op = "publish" /\ e.res = "response" /\ e.status = 204
    /\ outcome[t] = "AcmeNabuCasaError"

\* ---------------------------------------------------------------- C20
\* all challenges of an order, authorizations in order and challenges in
\* order within each
RECURSIVE Flatten(_)
Flatten(auths) ==
  IF auths = << >> THEN << >> ELSE auths[1] \o Flatten(Tail(auths))

DnsPlaces(flat) == { i \in DOMAIN flat : flat[i].typ = "dns-01" }
LastPlace(S) == CHOOSE i \in S : \A j \in S : j <= i

\* C20: for an order with at least one dns-01 challenge, _start_challenge
\* either fails in response_and_validation or returns the handler that
\* carries the last dns-01 challenge in scan order and the order itself.
C20_SelectsLast ==
  [][ \A t \in Tasks :
        (pc[t] = "find_challenge" /\ pc'[t] # "find_challenge") =>
          LET order == loc[t].order[1]
              flat == Flatten(order.authorizations)
          IN  DnsPlaces(flat) # {} =>
                \/ outcome'[t] = "AcmeChallengeError"
                \/ /\ pc'[t] = "publish"
                   /\ loc'[t].challenge # << >>
                   /\ loc'[t].challenge[1].challenge = flat[LastPlace(DnsPlaces(flat))]
                   /\ loc'[t].challenge[1].order = order
                   /\ loc'[t].challenge[1].validation =
                        Validation(flat[LastPlace(DnsPlaces(flat))], account_jwk) ]_vars

\* a handler returned for an order with dns-01 challenges in two
\* authorizations: it carries the one of the second
C20_Witness ==
  \E t \in Tasks :
    /\ pc[t] = "publish"
    /\ loc[t].challenge # << >>
    /\ LET h == loc[t].challenge[1]
           auths == h.order.authorizations
       IN  /\ Len(auths) = 2
           /\ \E c \in DOMAIN auths[1] : auths[1][c].typ = "dns-01"
           /\ \E c \in DOMAIN auths[2] : auths[2][c] = h.challenge
           /\ Cardinality(DnsPlaces(Flatten(auths))) >= 3

====
